---- MODULE Spec2Model ----
(***************************************************************************)
(* The example programs of the repository as one state machine.  Each      *)
(* example is a standalone React page; a behaviour of the model is a run   *)
(* of the one example that is mounted.                                     *)
(*                                                                         *)
(*   context-api : ThemeProvider / AuthProvider / Navbar / ThemedButton /  *)
(*                 AuthButton                                              *)
(*   redux-thunk : the fetchData thunk, the two dataReducer versions, App  *)
(*   Timer       : the useRef timer of Ans-5                               *)
(*   PreviousStateExample, RenderCounter : the useRef examples of Ans-5    *)
(*   WithUseMemo : the useMemo example, beside WithoutUseMemo              *)
(*   Parent      : the React.memo Child with and without useCallback       *)
(*   Search      : the useCallback search input                            *)
(*   css-demo-page, Using_Tailwind_CSS : the CSS toggling demos            *)
(*   toggleClass : the useRef classList example                            *)
(*   Counter     : the imperative and the declarative counter              *)
(*   ThemeProvider : the class component beside the hook                   *)
(*   ControlledForm : the useState form of Ans-6                           *)
(***************************************************************************)
EXTENDS Integers, Sequences, FiniteSets

VARIABLES
    mounted,          \* which example page is running
    \* ---- context-api
    theme,            \* ThemeProvider: useState("light")
    isAuthenticated,  \* AuthProvider: useState(false)
    navbar,           \* what <Navbar /> rendered last
    themedButton,     \* what <ThemedButton /> rendered last
    authButton,       \* what <AuthButton /> rendered last
    themeClicks,      \* history: clicks on ThemedButton so far
    authClicks,       \* history: clicks on AuthButton so far
    \* ---- redux-thunk
    pc,               \* per fetchData call: where its async function stands
    thrown,           \* per fetchData call: the error message caught, if any
    log,              \* history: per fetchData call, the actions it dispatched
    store,            \* state.data of the Redux store
    appView,          \* what <App /> rendered last
    storeDoubts,      \* state.data under the dataReducer of the Doubts section
    appViewDoubts,    \* what <App /> rendered last from storeDoubts
    \* ---- Timer
    time,             \* useState(0)
    timerRef,         \* useRef(null).current
    intervals,        \* ids of the intervals the browser holds active
    nextTimerId,      \* the id the next setInterval call returns
    stopClicks,       \* history: clicks on Stop so far
    \* ---- PreviousStateExample
    psCount,          \* useState(0)
    prevCountRef,     \* useRef(count).current
    psView,           \* what the component rendered last
    psClicks,         \* history: clicks on Increment so far
    \* ---- WithUseMemo
    memoCount,        \* useState(0)
    memoNumber,       \* useState(10)
    memoCache,        \* useMemo's cell: the dependencies and value it keeps
    computeRuns,      \* history: how often "Computing..." was logged
    memoView,         \* what the component rendered last
    memoClicks,       \* history: clicks on its "Increase Count" so far
    \* ---- WithoutUseMemo
    plainCount,       \* useState(0)
    plainNumber,      \* useState(10)
    plainRuns,        \* history: how often "Computing..." was logged
    plainView,        \* what the component rendered last
    plainClicks,      \* history: clicks on its "Increase Count" so far
    \* ---- Parent / Child
    parentCount,      \* useState(0)
    parentRenders,    \* history: renders of Parent so far
    handleClick,      \* identity of the function Parent passed last
    callbackCell,     \* useCallback's cell: the function it keeps
    childRenders,     \* history: how often "Child re-rendered!" was logged
    \* ---- Search
    query,            \* useState("")
    fetched,          \* history: the terms fetchResults was called with
    changes,          \* history: the change events of the input
    \* ---- CSS demos
    cssState,         \* per demo: its useState boolean
    cssView,          \* per demo: what it rendered last
    cssClicks,        \* history: per demo, the clicks on its button
    \* ---- toggleClass
    boxRef,           \* useRef(null).current once the div is mounted
    classList,        \* the class list of the div in the DOM
    boxRenders,       \* history: renders of the component so far
    boxClicks,        \* history: clicks on "Toggle Class"
    \* ---- RenderCounter
    rcCount,          \* useState(0)
    renderCount,      \* useRef(1).current
    rcRenders,        \* history: renders performed so far
    rcView,           \* what the component rendered last
    \* ---- Counter
    impCount,         \* let count = 0 of the imperative page
    impText,          \* textContent of <p id="text">
    impClicks,        \* history: clicks on the imperative button
    reactCount,       \* useState(0) of the React Counter
    reactText,        \* text content of the <p> Counter rendered last
    reactClicks,      \* history: clicks on the React button
    \* ---- ThemeProvider: class component and hook, side by side
    classTheme,       \* this.state.theme of the class component
    classPending,     \* the setState objects React has not processed yet
    hookTheme,        \* the theme of useState("light")
    hookPending,      \* the setTheme updaters React has not processed yet
    toggleCalls,      \* history: calls of toggleTheme so far
    \* ---- ControlledForm
    formData,         \* useState({ name: "", email: "" })
    formView,         \* the value attributes of the inputs rendered last
    lastChange,       \* history: per input, the value of its latest change
    formChanges,      \* history: change events so far
    submitted         \* history: what handleSubmit logged

ctxVars == <<theme, isAuthenticated, navbar, themedButton, authButton,
             themeClicks, authClicks>>
thunkVars == <<pc, thrown, log, store, appView, storeDoubts, appViewDoubts>>
timerVars == <<time, timerRef, intervals, nextTimerId, stopClicks>>
psVars == <<psCount, prevCountRef, psView, psClicks>>
memoVars == <<memoCount, memoNumber, memoCache, computeRuns, memoView,
              memoClicks>>
plainVars == <<plainCount, plainNumber, plainRuns, plainView, plainClicks>>
parentVars == <<parentCount, parentRenders, handleClick, callbackCell,
                childRenders>>
searchVars == <<query, fetched, changes>>
cssVars == <<cssState, cssView, cssClicks>>
boxVars == <<boxRef, classList, boxRenders, boxClicks>>
rcVars == <<rcCount, renderCount, rcRenders, rcView>>
counterVars == <<impCount, impText, impClicks, reactCount, reactText,
                 reactClicks>>
\* The examples of the hooks and CSS documents.
hooksVars == <<psVars, memoVars, plainVars, parentVars, searchVars, cssVars, boxVars,
               rcVars, counterVars>>
\* The examples of the context-api, redux-thunk and Timer documents.
appVars == <<ctxVars, thunkVars, timerVars>>
\* The examples of the class-component document and of the forms documents.
tpVars == <<classTheme, classPending, hookTheme, hookPending, toggleCalls>>
formVars == <<formData, formView, lastChange, formChanges, submitted>>
otherVars == <<tpVars, formVars>>
vars == <<mounted, appVars, hooksVars, otherVars>>

Examples ==
    {"context-api", "redux-thunk", "Timer", "PreviousStateExample",
     "WithUseMemo", "Parent (useCallback)", "Parent", "Search",
     "css-demo-page", "Using_Tailwind_CSS", "toggleClass", "RenderCounter",
     "Counter", "ThemeProvider", "ControlledForm"}

\* Bounds of the model.
MaxClicks == 4
MaxCalls == 2
MaxTime == 4
MaxTimers == 3
MaxChanges == 3
MaxToggles == 3
MaxBatch == 3
MaxSubmits == 2

(***************************************************************************)
(* context-api                                                             *)
(***************************************************************************)

\* useState("light") of ThemeProvider, useState(false) of AuthProvider.
InitialTheme == "light"

InitialIsAuthenticated_True == TRUE
InitialIsAuthenticated == FALSE

\* setTheme((prevTheme) => (prevTheme === "light" ? "dark" : "light"))
toggleTheme_OneWay(prevTheme) == "dark"
toggleTheme(prevTheme) == IF prevTheme = "light" THEN "dark" ELSE "light"

\* login: setIsAuthenticated(true);  logout: setIsAuthenticated(false)
login == TRUE
logout == FALSE

\* <ThemedButton />: the style and label it returns for a context value.
ThemedButton_Inverted(t) ==
    [ backgroundColor |-> IF t = "dark" THEN "#fff" ELSE "#333",
      color           |-> IF t = "dark" THEN "#000" ELSE "#fff",
      current         |-> t,
      onClick         |-> "toggleTheme" ]
ThemedButton(t) ==
    [ backgroundColor |-> IF t = "light" THEN "#fff" ELSE "#333",
      color           |-> IF t = "light" THEN "#000" ELSE "#fff",
      current         |-> t,
      onClick         |-> "toggleTheme" ]

\* <AuthButton />: the handler, style and label it returns.
AuthButton_Swapped(auth) ==
    [ onClick         |-> IF auth THEN "login" ELSE "logout",
      backgroundColor |-> IF auth THEN "#d9534f" ELSE "#5cb85c",
      label           |-> IF auth THEN "Logout" ELSE "Login" ]
AuthButton(auth) ==
    [ onClick         |-> IF auth THEN "logout" ELSE "login",
      backgroundColor |-> IF auth THEN "#d9534f" ELSE "#5cb85c",
      label           |-> IF auth THEN "Logout" ELSE "Login" ]

\* <Navbar />: reads both contexts.
Navbar_TextSwapped(t, auth) ==
    [ backgroundColor |-> IF t = "light" THEN "#f4f4f4" ELSE "#222",
      color           |-> IF t = "light" THEN "#000" ELSE "#fff",
      text            |-> IF auth THEN "Please log in." ELSE "Welcome, User!" ]
Navbar_NoAuth(t, auth) ==
    [ backgroundColor |-> IF t = "light" THEN "#f4f4f4" ELSE "#222",
      color           |-> IF t = "light" THEN "#000" ELSE "#fff",
      text            |-> "Please log in." ]
Navbar(t, auth) ==
    [ backgroundColor |-> IF t = "light" THEN "#f4f4f4" ELSE "#222",
      color           |-> IF t = "light" THEN "#000" ELSE "#fff",
      text            |-> IF auth THEN "Welcome, User!" ELSE "Please log in." ]

\* <App />: the providers re-render their consumers with the new values.
RenderContextApp(t, auth) ==
    /\ navbar' = Navbar(t, auth)
    /\ themedButton' = ThemedButton(t)
    /\ authButton' = AuthButton(auth)

\* A click on ThemedButton runs the handler it rendered, then React
\* re-renders before the next event is handled.
ClickThemedButton ==
    /\ mounted = "context-api"
    /\ themeClicks < MaxClicks
    /\ themedButton.onClick = "toggleTheme"
    /\ theme' = toggleTheme(theme)
    /\ themeClicks' = themeClicks + 1
    /\ RenderContextApp(theme', isAuthenticated)
    /\ UNCHANGED <<mounted, isAuthenticated, authClicks, thunkVars, timerVars, hooksVars, otherVars>>

\* A click on AuthButton runs the handler bound at its last render.
ClickAuthButton_ResetsTheme ==
    /\ mounted = "context-api"
    /\ authClicks < MaxClicks
    /\ isAuthenticated' = IF authButton.onClick = "login" THEN login ELSE logout
    /\ theme' = InitialTheme
    /\ authClicks' = authClicks + 1
    /\ RenderContextApp(theme', isAuthenticated')
    /\ UNCHANGED <<mounted, themeClicks, thunkVars, timerVars, hooksVars, otherVars>>
ClickAuthButton ==
    /\ mounted = "context-api"
    /\ authClicks < MaxClicks
    /\ isAuthenticated' = IF authButton.onClick = "login" THEN login ELSE logout
    /\ authClicks' = authClicks + 1
    /\ RenderContextApp(theme, isAuthenticated')
    /\ UNCHANGED <<mounted, theme, themeClicks, thunkVars, timerVars, hooksVars, otherVars>>

InitContext ==
    /\ theme = InitialTheme
    /\ isAuthenticated = InitialIsAuthenticated
    /\ navbar = Navbar(InitialTheme, InitialIsAuthenticated)
    /\ themedButton = ThemedButton(InitialTheme)
    /\ authButton = AuthButton(InitialIsAuthenticated)
    /\ themeClicks = 0
    /\ authClicks = 0

(***************************************************************************)
(* redux-thunk                                                             *)
(***************************************************************************)

FETCH_DATA_REQUEST == "FETCH_DATA_REQUEST"
FETCH_DATA_SUCCESS == "FETCH_DATA_SUCCESS"
FETCH_DATA_FAILURE == "FETCH_DATA_FAILURE"

Calls == 1..MaxCalls

\* What response.json() can resolve to: lists of item names.
Payloads == { <<>>, <<"a">>, <<"a", "b">> }
\* What error.message can be when fetch or response.json() rejects.
Messages == { "Failed to fetch", "Unexpected token" }
\* `thrown` of a call that caught nothing.
NoError == "(none)"

fetchDataRequest == [type |-> FETCH_DATA_REQUEST]
fetchDataSuccess(data) == [type |-> FETCH_DATA_SUCCESS, payload |-> data]
fetchDataFailure_Object(error) ==
    [type |-> FETCH_DATA_FAILURE, payload |-> "[object Object]"]
fetchDataFailure(error) == [type |-> FETCH_DATA_FAILURE, payload |-> error]

\* reducer.js (Step 3)
initialState == [loading |-> FALSE, data |-> <<>>, error |-> ""]

dataReducer_KeepData(state, action) ==
    CASE action.type = FETCH_DATA_REQUEST ->
            [state EXCEPT !.loading = TRUE]
      [] action.type = FETCH_DATA_SUCCESS ->
            [state EXCEPT !.loading = FALSE, !.data = action.payload, !.error = ""]
      [] action.type = FETCH_DATA_FAILURE ->
            [state EXCEPT !.loading = FALSE, !.error = action.payload]
      [] OTHER -> state
dataReducer_FailureKeepsLoading(state, action) ==
    CASE action.type = FETCH_DATA_REQUEST ->
            [state EXCEPT !.loading = TRUE]
      [] action.type = FETCH_DATA_SUCCESS ->
            [state EXCEPT !.loading = FALSE, !.data = action.payload, !.error = ""]
      [] action.type = FETCH_DATA_FAILURE ->
            [state EXCEPT !.data = <<>>, !.error = action.payload]
      [] OTHER -> state
dataReducer(state, action) ==
    CASE action.type = FETCH_DATA_REQUEST ->
            [state EXCEPT !.loading = TRUE]
      [] action.type = FETCH_DATA_SUCCESS ->
            [state EXCEPT !.loading = FALSE, !.data = action.payload, !.error = ""]
      [] action.type = FETCH_DATA_FAILURE ->
            [state EXCEPT !.loading = FALSE, !.data = <<>>, !.error = action.payload]
      [] OTHER -> state

\* dataReducer.js (Doubts section): error starts as null, a REQUEST also
\* clears the error, a SUCCESS leaves the error and a FAILURE leaves the data.
jsNull == "(null)"
initialStateDoubts == [loading |-> FALSE, data |-> <<>>, error |-> jsNull]

dataReducerDoubts(state, action) ==
    CASE action.type = FETCH_DATA_REQUEST ->
            [state EXCEPT !.loading = TRUE, !.error = jsNull]
      [] action.type = FETCH_DATA_SUCCESS ->
            [state EXCEPT !.loading = FALSE, !.data = action.payload]
      [] action.type = FETCH_DATA_FAILURE ->
            [state EXCEPT !.loading = FALSE, !.error = action.payload]
      [] OTHER -> state

\* The condition of `x ? a : b` for a string or null: null and the empty
\* string are falsy, every other string is truthy.
Truthy(v) == v # jsNull /\ v # ""

\* App.js: dataState.loading ? Loading : dataState.error ? Error : list.
App(dataState) ==
    IF dataState.loading THEN [shows |-> "Loading..."]
    ELSE IF Truthy(dataState.error)
         THEN [shows |-> "Error", error |-> dataState.error]
    ELSE [shows |-> "list", items |-> dataState.data]

\* store.dispatch of a plain action by call c: the reducer runs, the
\* subscribed App re-renders.  The same action goes to the store built with
\* the reducer of the Doubts section.
dispatch(c, action) ==
    /\ store' = dataReducer(store, action)
    /\ appView' = App(store')
    /\ storeDoubts' = dataReducerDoubts(storeDoubts, action)
    /\ appViewDoubts' = App(storeDoubts')
    /\ log' = [log EXCEPT ![c] = Append(@, action)]

\* dispatch(fetchData()): the thunk runs up to its first await.
FetchDataStart(c) ==
    /\ mounted = "redux-thunk"
    /\ pc[c] = "idle"
    /\ dispatch(c, fetchDataRequest)
    /\ pc' = [pc EXCEPT ![c] = "awaitFetch"]
    /\ UNCHANGED <<mounted, thrown, ctxVars, timerVars, hooksVars, otherVars>>

\* fetch(...) resolves: the function goes on to await response.json().
FetchResolves_Dispatches(c) ==
    /\ mounted = "redux-thunk"
    /\ pc[c] = "awaitFetch"
    /\ dispatch(c, fetchDataRequest)
    /\ pc' = [pc EXCEPT ![c] = "awaitJson"]
    /\ UNCHANGED <<mounted, thrown, ctxVars, timerVars, hooksVars, otherVars>>
FetchResolves(c) ==
    /\ mounted = "redux-thunk"
    /\ pc[c] = "awaitFetch"
    /\ pc' = [pc EXCEPT ![c] = "awaitJson"]
    /\ UNCHANGED <<mounted, thrown, log, store, appView, storeDoubts,
                   appViewDoubts, ctxVars, timerVars, hooksVars, otherVars>>

\* catch (error) { dispatch(fetchDataFailure(error.message)); }
Catch_Swallow(c, message) ==
    /\ thrown' = [thrown EXCEPT ![c] = message]
    /\ pc' = [pc EXCEPT ![c] = "done"]
    /\ UNCHANGED <<log, store, appView, storeDoubts, appViewDoubts>>
Catch(c, message) ==
    /\ thrown' = [thrown EXCEPT ![c] = message]
    /\ dispatch(c, fetchDataFailure(message))
    /\ pc' = [pc EXCEPT ![c] = "done"]

\* fetch(...) rejects.
FetchRejects(c, message) ==
    /\ mounted = "redux-thunk"
    /\ pc[c] = "awaitFetch"
    /\ Catch(c, message)
    /\ UNCHANGED <<mounted, ctxVars, timerVars, hooksVars, otherVars>>

\* response.json() resolves with data: dispatch(fetchDataSuccess(data)).
JsonResolves(c, data) ==
    /\ mounted = "redux-thunk"
    /\ pc[c] = "awaitJson"
    /\ dispatch(c, fetchDataSuccess(data))
    /\ pc' = [pc EXCEPT ![c] = "done"]
    /\ UNCHANGED <<mounted, thrown, ctxVars, timerVars, hooksVars, otherVars>>

\* response.json() rejects.
JsonRejects(c, message) ==
    /\ mounted = "redux-thunk"
    /\ pc[c] = "awaitJson"
    /\ Catch(c, message)
    /\ UNCHANGED <<mounted, ctxVars, timerVars, hooksVars, otherVars>>

InitThunk ==
    /\ pc = [c \in Calls |-> "idle"]
    /\ thrown = [c \in Calls |-> NoError]
    /\ log = [c \in Calls |-> <<>>]
    /\ store = initialState
    /\ appView = App(initialState)
    /\ storeDoubts = initialStateDoubts
    /\ appViewDoubts = App(initialStateDoubts)

(***************************************************************************)
(* Timer                                                                   *)
(***************************************************************************)

\* useRef(null): null is modelled as 0; setInterval returns ids from 1.
null == 0
InitialTime == 0

\* if (!timerRef.current) timerRef.current = setInterval(tick, 1000)
startTimer_NoGuard ==
    /\ timerRef' = nextTimerId
    /\ intervals' = intervals \cup {nextTimerId}
    /\ nextTimerId' = nextTimerId + 1
startTimer ==
    IF timerRef = null
    THEN /\ timerRef' = nextTimerId
         /\ intervals' = intervals \cup {nextTimerId}
         /\ nextTimerId' = nextTimerId + 1
    ELSE UNCHANGED <<timerRef, intervals, nextTimerId>>

\* clearInterval(timerRef.current); timerRef.current = null
stopTimer_KeepsInterval ==
    /\ timerRef' = null
    /\ UNCHANGED <<intervals, nextTimerId>>
stopTimer ==
    /\ intervals' = intervals \ {timerRef}
    /\ timerRef' = null
    /\ UNCHANGED nextTimerId

ClickStart ==
    /\ mounted = "Timer"
    /\ nextTimerId <= MaxTimers
    /\ startTimer
    /\ UNCHANGED <<mounted, time, stopClicks, ctxVars, thunkVars, hooksVars, otherVars>>

ClickStop ==
    /\ mounted = "Timer"
    /\ stopClicks < MaxClicks
    /\ stopTimer
    /\ stopClicks' = stopClicks + 1
    /\ UNCHANGED <<mounted, time, ctxVars, thunkVars, hooksVars, otherVars>>

\* The callback of an active interval: setTime((prev) => prev + 1)
Tick(id) ==
    /\ mounted = "Timer"
    /\ id \in intervals
    /\ time < MaxTime
    /\ time' = time + 1
    /\ UNCHANGED <<mounted, timerRef, intervals, nextTimerId, stopClicks,
                   ctxVars, thunkVars, hooksVars, otherVars>>

InitTimer ==
    /\ time = InitialTime
    /\ timerRef = null
    /\ intervals = {}
    /\ nextTimerId = 1
    /\ stopClicks = 0

(***************************************************************************)
(* PreviousStateExample                                                    *)
(***************************************************************************)

\* What the component returns: Current Count and Previous Count, the
\* latter read from prevCountRef.current while rendering.
PreviousStateExample(count, ref) == [current |-> count, previous |-> ref]

\* One render pass with the new count, followed by its effect
\* useEffect(() => { prevCountRef.current = count; }, [count]), which React
\* runs after the render and only when count differs from the last render's.
RenderPreviousState_EffectFirst(count) ==
    /\ psView' = PreviousStateExample(count, count)
    /\ prevCountRef' = count
RenderPreviousState(count) ==
    /\ psView' = PreviousStateExample(count, prevCountRef)
    /\ prevCountRef' = IF count # psCount THEN count ELSE prevCountRef

\* onClick={() => setCount(count + 1)}: count is the rendered one.
ClickPreviousIncrement ==
    /\ mounted = "PreviousStateExample"
    /\ psClicks < MaxClicks
    /\ psCount' = psView.current + 1
    /\ psClicks' = psClicks + 1
    /\ RenderPreviousState(psCount')
    /\ UNCHANGED <<mounted, appVars, otherVars, memoVars, plainVars, parentVars, searchVars,
                   cssVars, boxVars, rcVars, counterVars>>

\* useState(0), useRef(count), the first render, and its effect.
InitPreviousState ==
    /\ psCount = 0
    /\ psView = PreviousStateExample(0, 0)
    /\ prevCountRef = 0
    /\ psClicks = 0

(***************************************************************************)
(* RenderCounter                                                           *)
(***************************************************************************)

\* useRef(1)
InitialRenderCount_Zero == 1 - 1
InitialRenderCount == 1

\* What the component returns, renderCount.current read while rendering.
RenderCounter(count, ref) == [count |-> count, rendered |-> ref]

\* One render pass, followed by the effect without dependency list:
\* useEffect(() => { renderCount.current += 1; }).  Writing a ref schedules
\* no render.
RenderRenderCounter(count) ==
    /\ rcView' = RenderCounter(count, renderCount)
    /\ renderCount' = renderCount + 1
    /\ rcRenders' = rcRenders + 1

\* onClick={() => setCount(count + 1)}
ClickRenderCounterIncrement ==
    /\ mounted = "RenderCounter"
    /\ rcCount < MaxClicks
    /\ rcCount' = rcView.count + 1
    /\ RenderRenderCounter(rcCount')
    /\ UNCHANGED <<mounted, appVars, otherVars, psVars, memoVars, plainVars, parentVars,
                   searchVars, cssVars, boxVars, counterVars>>

\* The first render and its effect.
InitRenderCounter ==
    /\ rcCount = 0
    /\ rcView = RenderCounter(0, InitialRenderCount)
    /\ renderCount = InitialRenderCount + 1
    /\ rcRenders = 1

(***************************************************************************)
(* WithUseMemo and WithoutUseMemo                                          *)
(***************************************************************************)

\* The page of the useMemo document: the two components are mounted side
\* by side, each with its own state and its own "Increase Count" button.

\* useState(10)
InitialNumber == 10

\* The function given to useMemo: logs "Computing...", returns number * 2.
expensiveCalculation(number) == number * 2

\* useMemo keeps its value while every dependency is the same as in the
\* last render.
DepsUnchanged_Never(prev, next) == FALSE
DepsUnchanged(prev, next) == prev = next

\* One render pass of WithUseMemo: useMemo(..., [number]), then the JSX.
RenderWithUseMemo(count, number) ==
    LET hit == DepsUnchanged(memoCache.deps, <<number>>)
        cell == IF hit THEN memoCache
                ELSE [deps |-> <<number>>, value |-> expensiveCalculation(number)]
    IN  /\ memoCache' = cell
        /\ computeRuns' = IF hit THEN computeRuns ELSE computeRuns + 1
        /\ memoView' = [computedValue |-> cell.value, count |-> count]

\* onClick={() => setCount(count + 1)}; setNumber is never called.
ClickIncreaseCount ==
    /\ mounted = "WithUseMemo"
    /\ memoCount < MaxClicks
    /\ memoCount' = memoView.count + 1
    /\ memoClicks' = memoClicks + 1
    /\ RenderWithUseMemo(memoCount', memoNumber)
    /\ UNCHANGED <<mounted, memoNumber, plainVars, appVars, otherVars, psVars,
                   parentVars, searchVars, cssVars, boxVars, rcVars,
                   counterVars>>

\* The first render computes the value once.
InitWithUseMemo ==
    /\ memoCount = 0
    /\ memoNumber = InitialNumber
    /\ memoCache = [deps |-> <<InitialNumber>>,
                    value |-> expensiveCalculation(InitialNumber)]
    /\ computeRuns = 1
    /\ memoView = [computedValue |-> expensiveCalculation(InitialNumber),
                   count |-> 0]
    /\ memoClicks = 0

\* WithoutUseMemo: const expensiveCalculation = (num) => { ...; return
\* num * 2; }, called in every render.
expensiveCalculationWithout_AddsTwo(num) == num + 2
expensiveCalculationWithout(num) == num * 2

\* One render pass of WithoutUseMemo: the calculation, then the JSX.
RenderWithoutUseMemo(count, number) ==
    /\ plainRuns' = plainRuns + 1
    /\ plainView' = [computedValue |-> expensiveCalculationWithout(number),
                     count |-> count]

\* onClick={() => setCount(count + 1)}; setNumber is never called.
ClickIncreaseCountWithout ==
    /\ mounted = "WithUseMemo"
    /\ plainCount < MaxClicks
    /\ plainCount' = plainView.count + 1
    /\ plainClicks' = plainClicks + 1
    /\ RenderWithoutUseMemo(plainCount', plainNumber)
    /\ UNCHANGED <<mounted, plainNumber, memoVars, appVars, otherVars, psVars,
                   parentVars, searchVars, cssVars, boxVars, rcVars,
                   counterVars>>

\* The first render runs the calculation.
InitWithoutUseMemo ==
    /\ plainCount = 0
    /\ plainNumber = InitialNumber
    /\ plainRuns = 1
    /\ plainView = [computedValue |-> expensiveCalculationWithout(InitialNumber),
                    count |-> 0]
    /\ plainClicks = 0

(***************************************************************************)
(* Parent / Child: with and without useCallback                            *)
(***************************************************************************)

\* A function object is identified by the number of the Parent render that
\* created it.

\* useCallback(fn, []): with an empty dependency list the function kept in
\* the hook's cell is returned and the one just created is dropped.
useCallback_Recreates(kept, created) == created
useCallback(kept, created) == kept

\* React.memo(Child): Child is rendered again iff a prop differs by
\* reference from the one of its last render.
PropsEqual(prev, next) == prev = next

\* One render pass of Parent: it creates handleClick (through useCallback in
\* the optimized version), and React renders <Child handleClick=... />.
RenderParent ==
    LET r == parentRenders + 1
        fn == IF mounted = "Parent (useCallback)"
              THEN useCallback(callbackCell, r)
              ELSE r
    IN  /\ parentRenders' = r
        /\ handleClick' = fn
        /\ callbackCell' = IF mounted = "Parent (useCallback)"
                           THEN fn ELSE callbackCell
        /\ childRenders' = IF PropsEqual(handleClick, fn)
                           THEN childRenders ELSE childRenders + 1

\* onClick={() => setCount(count + 1)}
ClickParentIncrement ==
    /\ mounted \in {"Parent (useCallback)", "Parent"}
    /\ parentCount < MaxClicks
    /\ parentCount' = parentCount + 1
    /\ RenderParent
    /\ UNCHANGED <<mounted, appVars, otherVars, psVars, memoVars, plainVars, searchVars, cssVars,
                   boxVars, rcVars, counterVars>>

\* The first render of Parent and of Child.
InitParent ==
    /\ parentCount = 0
    /\ parentRenders = 1
    /\ handleClick = 1
    /\ callbackCell = IF mounted = "Parent (useCallback)" THEN 1 ELSE 0
    /\ childRenders = 1

(***************************************************************************)
(* Search                                                                  *)
(***************************************************************************)

\* What the input can hold after a change event.
Terms == {"r", "re", "rea"}

\* fetchResults(searchTerm): logs and (simulated) fetches; memoized with
\* useCallback(..., []), it does the same in every render.
fetchResults(searchTerm) == fetched' = Append(fetched, searchTerm)

\* handleChange: setQuery(e.target.value); fetchResults(e.target.value).
\* A change event carries a value other than the one the input held.
handleChange(value) ==
    /\ mounted = "Search"
    /\ changes < MaxChanges
    /\ value # query
    /\ query' = value
    /\ fetchResults(value)
    /\ changes' = changes + 1
    /\ UNCHANGED <<mounted, appVars, otherVars, psVars, memoVars, plainVars, parentVars, cssVars,
                   boxVars, rcVars, counterVars>>

InitSearch ==
    /\ query = ""
    /\ fetched = <<>>
    /\ changes = 0

(***************************************************************************)
(* CSS demos: the page of five demos, and Using_Tailwind_CSS               *)
(***************************************************************************)

\* <App /> of the demo page renders these five.
PageDemos ==
    {"Using_Inline_Style", "Using_CSS_Classes", "Using_CSS_Module",
     "Using_Styled_Components", "Using_Emotion"}
Demos == PageDemos \cup {"Using_Tailwind_CSS"}

\* What each demo renders for its boolean.
Using_Inline_Style(isActive) ==
    [color |-> IF isActive THEN "red" ELSE "blue"]
Using_CSS_Classes(isDark) ==
    [className |-> IF isDark THEN "dark-mode" ELSE "light-mode"]
Using_CSS_Modules(isSuccess) ==
    [className |-> IF isSuccess THEN "success" ELSE "error",
     message   |-> IF isSuccess THEN "Success" ELSE "Error"]
Using_Styled_Components_Inverted(primary) ==
    [backgroundColor |-> IF primary THEN "gray" ELSE "blue"]
Using_Styled_Components(primary) ==
    [backgroundColor |-> IF primary THEN "blue" ELSE "gray"]
Using_Emotion(isActive) ==
    [color |-> IF isActive THEN "red" ELSE "blue"]
Using_Tailwind_CSS(isActive) ==
    [className |-> IF isActive THEN "bg-green-500 text-blue-500"
                   ELSE "bg-gray-200 text-blue-500"]

RenderDemo(d, b) ==
    CASE d = "Using_Inline_Style" -> Using_Inline_Style(b)
      [] d = "Using_CSS_Classes" -> Using_CSS_Classes(b)
      [] d = "Using_CSS_Module" -> Using_CSS_Modules(b)
      [] d = "Using_Styled_Components" -> Using_Styled_Components(b)
      [] d = "Using_Emotion" -> Using_Emotion(b)
      [] d = "Using_Tailwind_CSS" -> Using_Tailwind_CSS(b)

\* useState(false) everywhere but useState(true) in Using_CSS_Modules.
InitialToggle(d) == d = "Using_CSS_Module"

\* Whether demo d is on the page that is running.
OnPage(d) ==
    \/ mounted = "css-demo-page" /\ d \in PageDemos
    \/ mounted = "Using_Tailwind_CSS" /\ d = "Using_Tailwind_CSS"

\* onClick={() => setX(!x)} of demo d; only d holds the state, only d is
\* rendered again.
ClickToggle_Shared(d) ==
    /\ OnPage(d)
    /\ cssClicks[d] < MaxToggles
    /\ cssState' = [e \in Demos |-> IF OnPage(e) THEN ~cssState[e] ELSE cssState[e]]
    /\ cssView' = [e \in Demos |-> RenderDemo(e, cssState'[e])]
    /\ cssClicks' = [cssClicks EXCEPT ![d] = @ + 1]
    /\ UNCHANGED <<mounted, appVars, otherVars, psVars, memoVars, plainVars, parentVars,
                   searchVars, boxVars, rcVars, counterVars>>
ClickToggle(d) ==
    /\ OnPage(d)
    /\ cssClicks[d] < MaxToggles
    /\ cssState' = [cssState EXCEPT ![d] = ~cssState[d]]
    /\ cssView' = [cssView EXCEPT ![d] = RenderDemo(d, cssState'[d])]
    /\ cssClicks' = [cssClicks EXCEPT ![d] = @ + 1]
    /\ UNCHANGED <<mounted, appVars, otherVars, psVars, memoVars, plainVars, parentVars,
                   searchVars, boxVars, rcVars, counterVars>>

InitCss ==
    /\ cssState = [d \in Demos |-> InitialToggle(d)]
    /\ cssView = [d \in Demos |-> RenderDemo(d, InitialToggle(d))]
    /\ cssClicks = [d \in Demos |-> 0]

(***************************************************************************)
(* toggleClass: adding and removing a CSS class through useRef             *)
(***************************************************************************)

\* DOMTokenList.toggle(token): removes the token if present, else adds it.
classListToggle_AddOnly(list, token) == list \cup {token}
classListToggle(list, token) ==
    IF token \in list THEN list \ {token} ELSE list \cup {token}

\* if (boxRef.current) boxRef.current.classList.toggle("active");
\* no state is set, so nothing is rendered again.
toggleClass ==
    /\ mounted = "toggleClass"
    /\ boxClicks < MaxClicks
    /\ classList' = IF boxRef # "null"
                    THEN classListToggle(classList, "active")
                    ELSE classList
    /\ boxClicks' = boxClicks + 1
    /\ UNCHANGED <<mounted, boxRef, boxRenders, appVars, otherVars, psVars, memoVars, plainVars,
                   parentVars, searchVars, cssVars, rcVars, counterVars>>

\* After mount: <div ref={boxRef} className="box"> is in the DOM.
InitBox ==
    /\ boxRef = "div"
    /\ classList = {"box"}
    /\ boxRenders = 1
    /\ boxClicks = 0

(***************************************************************************)
(* Counter: imperative page and React component                            *)
(***************************************************************************)

\* Number to string, as the template literal and JSX both do it.
DigitChar(d) == <<"0", "1", "2", "3", "4", "5", "6", "7", "8", "9">>[d + 1]
RECURSIVE ToString(_)
ToString(n) ==
    IF n < 10 THEN <<DigitChar(n)>>
    ELSE ToString(n \div 10) \o <<DigitChar(n % 10)>>

\* `Count: ${count}` of the imperative page.
CountTemplate(count) == <<"Count: ">> \o ToString(count)

\* <p>Count: {count}</p> of the React Counter: its text content.
Counter_Heading(count) == <<"Counter: ">> \o ToString(count)
Counter(count) == <<"Count: ">> \o ToString(count)

\* count++; document.getElementById("text").textContent = `Count: ${count}`
ClickImperativeIncrement ==
    /\ mounted = "Counter"
    /\ impClicks < MaxClicks
    /\ impCount' = impCount + 1
    /\ impText' = CountTemplate(impCount')
    /\ impClicks' = impClicks + 1
    /\ UNCHANGED <<mounted, reactCount, reactText, reactClicks, appVars, otherVars,
                   psVars, memoVars, plainVars, parentVars, searchVars, cssVars,
                   boxVars, rcVars>>

\* onClick={() => setCount(count + 1)}, then the render.
ClickCounterIncrement ==
    /\ mounted = "Counter"
    /\ reactClicks < MaxClicks
    /\ reactCount' = reactCount + 1
    /\ reactText' = Counter(reactCount')
    /\ reactClicks' = reactClicks + 1
    /\ UNCHANGED <<mounted, impCount, impText, impClicks, appVars, otherVars, psVars,
                   memoVars, plainVars, parentVars, searchVars, cssVars, boxVars,
                   rcVars>>

\* <p id="text">Count: 0</p> and let count = 0; useState(0) and its render.
InitCounter ==
    /\ impCount = 0
    /\ impText = <<"Count: ", "0">>
    /\ impClicks = 0
    /\ reactCount = 0
    /\ reactText = Counter(0)
    /\ reactClicks = 0

(***************************************************************************)
(* ThemeProvider: the class component and the hook                         *)
(***************************************************************************)

\* The two providers receive the same calls of toggleTheme and are rendered
\* again at the same moments.  React queues the updates made inside one
\* event handler and processes the queue when it renders.

\* Class component: toggleTheme = () => { this.setState({ theme:
\* this.state.theme === "light" ? "dark" : "light" }); }.  The object is
\* computed from this.state at the time of the call.
classToggleTheme(state) ==
    [theme |-> IF state.theme = "light" THEN "dark" ELSE "light"]

\* React merges the queued setState objects into the state, in order.
RECURSIVE MergeStates(_, _)
MergeStates(state, queue) ==
    IF queue = <<>> THEN state
    ELSE MergeStates([state EXCEPT !.theme = Head(queue).theme], Tail(queue))

\* React applies the queued setTheme updaters to the state, in order; each
\* is (prevTheme) => (prevTheme === "light" ? "dark" : "light").
RECURSIVE ApplyUpdaters(_, _)
ApplyUpdaters(prevTheme, n) ==
    IF n = 0 THEN prevTheme
    ELSE ApplyUpdaters(toggleTheme(prevTheme), n - 1)

\* toggleTheme() is called on both providers; neither has rendered yet.
CallToggleTheme ==
    /\ mounted = "ThemeProvider"
    /\ toggleCalls < MaxClicks
    /\ Len(classPending) < MaxBatch
    /\ classPending' = Append(classPending, classToggleTheme(classTheme))
    /\ hookPending' = hookPending + 1
    /\ toggleCalls' = toggleCalls + 1
    /\ UNCHANGED <<mounted, classTheme, hookTheme, appVars, hooksVars,
                   formVars>>

\* The event handler has returned: React processes both queues and renders
\* the providers again.
RenderProviders ==
    /\ mounted = "ThemeProvider"
    /\ classPending # <<>>
    /\ classTheme' = MergeStates(classTheme, classPending)
    /\ hookTheme' = ApplyUpdaters(hookTheme, hookPending)
    /\ classPending' = <<>>
    /\ hookPending' = 0
    /\ UNCHANGED <<mounted, toggleCalls, appVars, hooksVars, formVars>>

\* state = { theme: "light" } and useState("light").
InitProviders ==
    /\ classTheme = [theme |-> "light"]
    /\ classPending = <<>>
    /\ hookTheme = InitialTheme
    /\ hookPending = 0
    /\ toggleCalls = 0

(***************************************************************************)
(* ControlledForm                                                          *)
(***************************************************************************)

\* A JavaScript object is a function from its keys to their values.

\* The name attributes of the two inputs that carry onChange={handleChange}.
Fields == {"name", "email"}
\* What e.target.value can be.
FormValues == {"", "a", "ab"}

\* obj[key], undefined when obj has no such key.
Get(obj, key) == IF key \in DOMAIN obj THEN obj[key] ELSE "undefined"

\* { ...formData, [e.target.name]: e.target.value }
Spread_NoSpread(obj, key, value) == [k \in {key} |-> value]
Spread(obj, key, value) ==
    [k \in DOMAIN obj \cup {key} |-> IF k = key THEN value ELSE obj[k]]

\* The value attributes of the inputs: value={formData.name} and
\* value={formData.email}.
ControlledForm(data) ==
    [name |-> Get(data, "name"), email |-> Get(data, "email")]

\* handleChange of the input named field: setFormData({ ...formData,
\* [e.target.name]: e.target.value }), then the render.  formData in the
\* handler is the one of the last render, which is the state: React renders
\* after each change event before it handles the next.  A change event
\* carries a value other than the one the input shows.
formHandleChange(field, value) ==
    /\ mounted = "ControlledForm"
    /\ formChanges < MaxChanges
    /\ value # formView[field]
    /\ formData' = Spread(formData, field, value)
    /\ formView' = ControlledForm(formData')
    /\ lastChange' = [lastChange EXCEPT ![field] = value]
    /\ formChanges' = formChanges + 1
    /\ UNCHANGED <<mounted, submitted, appVars, hooksVars, tpVars>>

\* handleSubmit: e.preventDefault(); console.log("Form Data:", formData).
formHandleSubmit ==
    /\ mounted = "ControlledForm"
    /\ Len(submitted) < MaxSubmits
    /\ submitted' = Append(submitted, formData)
    /\ UNCHANGED <<mounted, formData, formView, lastChange, formChanges,
                   appVars, hooksVars, tpVars>>

\* useState({ name: "", email: "" }) and the first render.
InitForm ==
    /\ formData = [name |-> "", email |-> ""]
    /\ formView = ControlledForm([name |-> "", email |-> ""])
    /\ lastChange = [f \in Fields |-> ""]
    /\ formChanges = 0
    /\ submitted = <<>>

(***************************************************************************)
(* The specification                                                       *)
(***************************************************************************)

Init ==
    /\ mounted \in Examples
    /\ InitContext
    /\ InitThunk
    /\ InitTimer
    /\ InitPreviousState
    /\ InitRenderCounter
    /\ InitWithUseMemo
    /\ InitWithoutUseMemo
    /\ InitParent
    /\ InitSearch
    /\ InitCss
    /\ InitBox
    /\ InitCounter
    /\ InitProviders
    /\ InitForm

Next ==
    \/ ClickThemedButton
    \/ ClickAuthButton
    \/ \E c \in Calls : FetchDataStart(c)
    \/ \E c \in Calls : FetchResolves(c)
    \/ \E c \in Calls, m \in Messages : FetchRejects(c, m)
    \/ \E c \in Calls, d \in Payloads : JsonResolves(c, d)
    \/ \E c \in Calls, m \in Messages : JsonRejects(c, m)
    \/ ClickStart
    \/ ClickStop
    \/ \E id \in 1..MaxTimers : Tick(id)
    \/ ClickPreviousIncrement
    \/ ClickRenderCounterIncrement
    \/ ClickIncreaseCount
    \/ ClickIncreaseCountWithout
    \/ ClickParentIncrement
    \/ \E value \in Terms : handleChange(value)
    \/ \E d \in Demos : ClickToggle(d)
    \/ toggleClass
    \/ ClickImperativeIncrement
    \/ ClickCounterIncrement
    \/ CallToggleTheme
    \/ RenderProviders
    \/ \E field \in Fields, value \in FormValues : formHandleChange(field, value)
    \/ formHandleSubmit

Spec == Init /\ [][Next]_vars

\* The promise a fetchData call awaits settles: fetch(...) resolves or
\* rejects, and so does response.json().  Once it has, the JavaScript event
\* loop runs the continuation of the async function.
FetchSettles(c) ==
    \/ FetchResolves(c)
    \/ \E m \in Messages : FetchRejects(c, m)
JsonSettles(c) ==
    \/ \E d \in Payloads : JsonResolves(c, d)
    \/ \E m \in Messages : JsonRejects(c, m)

\* The behaviours in which every awaited promise eventually settles.
FairSpec ==
    /\ Spec
    /\ \A c \in Calls : WF_vars(FetchSettles(c)) /\ WF_vars(JsonSettles(c))

(***************************************************************************)
(* Properties: context-api                                                 *)
(***************************************************************************)

\* C1: before any click the state is theme = "light" and isAuthenticated =
\* false, the Navbar shows "Please log in." and the AuthButton shows "Login".
C1_InitialRender ==
    (themeClicks = 0 /\ authClicks = 0) =>
        /\ theme = "light"
        /\ isAuthenticated = FALSE
        /\ navbar.text = "Please log in."
        /\ authButton.label = "Login"

C1_Witness ==
    /\ mounted = "context-api"
    /\ themeClicks = 0
    /\ authClicks = 0
    /\ navbar.text = "Please log in."
    /\ authButton.label = "Login"

\* C2: every click on AuthButton flips isAuthenticated: from false the click
\* runs login and ends with true, "Welcome, User!" and "Logout"; from true it
\* runs logout and ends with false, "Please log in." and "Login".
C2_ClickFlipsAuth ==
    [][authClicks' # authClicks =>
        /\ isAuthenticated' = ~isAuthenticated
        /\ ~isAuthenticated =>
              /\ authButton.onClick = "login"
              /\ isAuthenticated' = TRUE
              /\ navbar'.text = "Welcome, User!"
              /\ authButton'.label = "Logout"
        /\ isAuthenticated =>
              /\ authButton.onClick = "logout"
              /\ isAuthenticated' = FALSE
              /\ navbar'.text = "Please log in."
              /\ authButton'.label = "Login"]_vars

C2_Witness ==
    /\ authClicks = 2
    /\ isAuthenticated = FALSE
    /\ navbar.text = "Please log in."
    /\ authButton.label = "Login"

\* C3: every click on ThemedButton maps "light" to "dark" and "dark" to
\* "light"; after n clicks the theme is "dark" iff n is odd; toggling twice
\* restores the theme.
C3_ThemeParity ==
    /\ [](theme = "dark" <=> themeClicks % 2 = 1)
    /\ [](theme = "light" <=> themeClicks % 2 = 0)
    /\ [](toggleTheme(toggleTheme(theme)) = theme)
    /\ [][themeClicks' # themeClicks =>
            /\ themeClicks' = themeClicks + 1
            /\ theme = "light" => theme' = "dark"
            /\ theme = "dark" => theme' = "light"
            /\ themedButton'.current = theme']_vars

C3_Witness ==
    /\ themeClicks = 3
    /\ theme = "dark"
    /\ themedButton.current = "dark"

\* C4: in every reachable state the Navbar and the AuthButton agree on the
\* login state: "Welcome, User!" iff "Logout" iff background "#d9534f";
\* otherwise "Please log in.", "Login" and "#5cb85c".
C4_NavbarAgreesWithAuthButton ==
    /\ navbar.text = "Welcome, User!" <=> authButton.label = "Logout"
    /\ authButton.label = "Logout" <=> authButton.backgroundColor = "#d9534f"
    /\ navbar.text # "Welcome, User!" =>
          /\ navbar.text = "Please log in."
          /\ authButton.label = "Login"
          /\ authButton.backgroundColor = "#5cb85c"

C4_Witness ==
    /\ authClicks = 1
    /\ navbar.text = "Welcome, User!"
    /\ authButton.label = "Logout"
    /\ authButton.backgroundColor = "#d9534f"

\* C5 as stated: a click handled in one component never changes what any
\* other component renders.
C5_Original ==
    [][/\ authClicks' # authClicks =>
             navbar' = navbar /\ themedButton' = themedButton
       /\ themeClicks' # themeClicks =>
             navbar' = navbar /\ authButton' = authButton]_vars

\* C5 (amended): the state of the context-api example is held by the two
\* providers and shared through context.  A click on AuthButton changes the
\* Navbar's text and nothing ThemedButton renders; a click on ThemedButton
\* changes the Navbar's colours and nothing AuthButton renders; and the
\* Navbar always shows the login state AuthButton shows and the text colour
\* ThemedButton shows.
C5_SharedThroughContext ==
    /\ [][/\ authClicks' # authClicks =>
                /\ navbar'.text # navbar.text
                /\ navbar'.backgroundColor = navbar.backgroundColor
                /\ themedButton' = themedButton
          /\ themeClicks' # themeClicks =>
                /\ navbar'.backgroundColor # navbar.backgroundColor
                /\ navbar'.text = navbar.text
                /\ authButton' = authButton]_vars
    /\ [](navbar.text = "Welcome, User!" <=> authButton.onClick = "logout")
    /\ [](navbar.color = themedButton.color)

C5_Witness ==
    /\ authClicks > 0
    /\ themeClicks > 0
    /\ navbar.text = "Welcome, User!"
    /\ navbar.backgroundColor = "#222"

\* C21: in every reachable state theme is "light" or "dark", and ThemedButton
\* and Navbar use the palette of the same theme: the button is "#fff" on
\* "#000" text iff the navbar is "#f4f4f4" with "#000", and the button is
\* "#333" with "#fff" iff the navbar is "#222" with "#fff".
C21_SamePalette ==
    LET buttonLight == themedButton.backgroundColor = "#fff"
                       /\ themedButton.color = "#000"
        buttonDark  == themedButton.backgroundColor = "#333"
                       /\ themedButton.color = "#fff"
        navbarLight == navbar.backgroundColor = "#f4f4f4"
                       /\ navbar.color = "#000"
        navbarDark  == navbar.backgroundColor = "#222" /\ navbar.color = "#fff"
    IN  /\ theme \in {"light", "dark"}
        /\ buttonLight <=> navbarLight
        /\ buttonDark <=> navbarDark
        /\ buttonLight <=> theme = "light"
        /\ buttonDark <=> theme = "dark"

\* Both components painted dark after an odd number of theme clicks, with a
\* login in between.
C21_Witness ==
    /\ themeClicks = 1
    /\ authClicks = 2
    /\ themedButton.backgroundColor = "#333"
    /\ themedButton.color = "#fff"
    /\ navbar.backgroundColor = "#222"
    /\ navbar.color = "#fff"

(***************************************************************************)
(* Properties: redux-thunk                                                 *)
(***************************************************************************)

Settled(c) == pc[c] = "done"
Pending(c) == pc[c] \in {"awaitFetch", "awaitJson"}

\* C6: one call of fetchData dispatches FETCH_DATA_REQUEST first and then
\* exactly one of FETCH_DATA_SUCCESS or FETCH_DATA_FAILURE: nothing before
\* the call starts, only the REQUEST while the fetch is pending, and
\* REQUEST followed by one SUCCESS or FAILURE once it has settled.
C6_RequestThenOneOutcome ==
    \A c \in Calls :
        /\ pc[c] = "idle" => log[c] = <<>>
        /\ Pending(c) => log[c] = <<fetchDataRequest>>
        /\ Settled(c) =>
              /\ Len(log[c]) = 2
              /\ log[c][1] = fetchDataRequest
              /\ log[c][2].type \in {FETCH_DATA_SUCCESS, FETCH_DATA_FAILURE}

C6_Witness ==
    \E c, d \in Calls :
        /\ Settled(c) /\ log[c][2].type = FETCH_DATA_SUCCESS
        /\ Settled(d) /\ log[d][2].type = FETCH_DATA_FAILURE

\* C7: when the fetch or the JSON decoding throws, the error is caught and
\* dispatched as FETCH_DATA_FAILURE carrying the message; the state that
\* results is loading = false, data = [], error = the message, and the App
\* renders the error.
C7_FailureReachesState ==
    /\ [](\A c \in Calls : thrown[c] # NoError =>
             /\ Settled(c)
             /\ Len(log[c]) = 2
             /\ log[c][2].type = FETCH_DATA_FAILURE
             /\ log[c][2].payload = thrown[c])
    /\ [][\A c \in Calls : thrown'[c] # thrown[c] =>
             /\ store'.loading = FALSE
             /\ store'.data = <<>>
             /\ store'.error = thrown'[c]
             /\ appView' = [shows |-> "Error", error |-> thrown'[c]]]_vars

\* A call failed after another had stored a non-empty list.
C7_Witness ==
    \E c, d \in Calls :
        /\ Settled(c) /\ log[c][2] = fetchDataSuccess(<<"a", "b">>)
        /\ thrown[d] = "Failed to fetch"
        /\ store = [loading |-> FALSE, data |-> <<>>, error |-> "Failed to fetch"]
        /\ appView.shows = "Error"

\* C8 as stated: no operation of any example has an error outcome, catches a
\* failure, or propagates a failure into state.
C8_Original ==
    /\ \A c \in Calls : thrown[c] = NoError
    /\ store.error = ""
    /\ appView.shows # "Error"

\* C8 (amended): the examples are happy-path except fetchData, which
\* catches a rejected fetch or JSON decoding and propagates its message into
\* the store.  That is the only error outcome: the store holds an error, and
\* the App shows one, only when a settled fetchData call caught that very
\* message, and never in the context-api or Timer examples.
C8_OnlyFetchDataFails ==
    /\ store.error # "" =>
          \E c \in Calls : Settled(c) /\ thrown[c] = store.error
    /\ appView.shows = "Error" =>
          /\ store.error # ""
          /\ appView.error = store.error
    /\ mounted # "redux-thunk" =>
          /\ store.error = ""
          /\ \A c \in Calls : thrown[c] = NoError

C8_Witness ==
    /\ store.error = "Unexpected token"
    /\ appView = [shows |-> "Error", error |-> "Unexpected token"]
    /\ \E c \in Calls : thrown[c] = "Unexpected token"

\* C9 as stated: no example leaves an operation pending (a promise, a timer)
\* that updates state after other events may have been handled.
C9_Original ==
    /\ \A c \in Calls : ~Pending(c)
    /\ intervals = {}

\* C9 (amended): every handler runs to completion on one thread, but not
\* all state updates are made inside the event handler that triggered them.
\* A fetchData call stays pending over its awaits and updates the store
\* only in the step where it starts or settles; the Timer's interval stays
\* pending and its callback alone updates time; theme and isAuthenticated
\* are updated only inside the click handlers.
C9_UpdatesOnlyWhenSettling ==
    [][/\ store' # store =>
             \E c \in Calls :
                /\ pc'[c] # pc[c]
                /\ pc[c] = "idle" \/ pc'[c] = "done"
                /\ \A d \in Calls \ {c} : pc'[d] = pc[d]
       /\ time' # time =>
             /\ intervals # {}
             /\ UNCHANGED <<timerRef, intervals>>
       /\ theme' # theme => themeClicks' # themeClicks
       /\ isAuthenticated' # isAuthenticated => authClicks' # authClicks]_vars

\* One call settled and changed the store while another is still pending.
C9_Witness ==
    \E c, d \in Calls :
        /\ Pending(c)
        /\ Settled(d)
        /\ store.loading = FALSE

\* C22: for every interleaving of fetchData calls, loading is true exactly
\* while at least one call is in flight, that is, has dispatched
\* FETCH_DATA_REQUEST and not yet its FETCH_DATA_SUCCESS or
\* FETCH_DATA_FAILURE.
C22_LoadingIffInFlight ==
    store.loading <=> \E c \in Calls : Pending(c)

\* C23: after fetchData is dispatched, provided the promises it awaits
\* settle, the store eventually reaches loading = false and the App stops
\* showing "Loading..."; and once no call is pending loading is false.
C23_LoadingEnds ==
    /\ \A c \in Calls :
          Pending(c) ~> (~store.loading /\ appView.shows # "Loading...")
    /\ []((\A c \in Calls : ~Pending(c)) => ~store.loading)

\* One call was dispatched and went through both awaits to its data.
C23_Witness ==
    \E c \in Calls :
        /\ Settled(c)
        /\ thrown[c] = NoError
        /\ \A d \in Calls \ {c} : pc[d] = "idle"
        /\ store = [loading |-> FALSE, data |-> <<"a">>, error |-> ""]
        /\ appView = [shows |-> "list", items |-> <<"a">>]

\* C24: the two dataReducer versions of the redux-thunk document are
\* observationally equivalent for the App: after every sequence of actions
\* that fetchData calls produce, the App renders the same from both.
C24_ReducersEquivalent ==
    appView = appViewDoubts

(***************************************************************************)
(* Properties: Timer                                                       *)
(***************************************************************************)

\* C10: for every sequence of Start and Stop clicks at most one interval is
\* active, and timerRef.current is non-null iff an interval is active (and
\* then holds that interval's id).
C10_AtMostOneInterval ==
    /\ Cardinality(intervals) <= 1
    /\ timerRef # null <=> intervals # {}
    /\ timerRef # null => intervals = {timerRef}

\* The timer was started, stopped and started again, and has ticked.
C10_Witness ==
    /\ timerRef = 2
    /\ intervals = {2}
    /\ time > 0

\* C25: in the Timer example time changes only by interval ticks that add
\* exactly 1 (it never decreases and is never reset); it stays unchanged
\* from a Stop click until the next Start click; and a Stop click while no
\* interval is active changes nothing.
C25_TimeOnlyTicks ==
    /\ [][time' # time =>
            /\ time' = time + 1
            /\ timerRef # null
            /\ timerRef \in intervals
            /\ UNCHANGED <<timerRef, intervals, nextTimerId, stopClicks>>]_vars
    /\ [][stopClicks' # stopClicks =>
            /\ time' = time
            /\ timerRef' = null
            /\ intervals' = {}]_vars
    /\ [][timerRef = null => time' = time]_vars
    /\ [][(stopClicks' # stopClicks /\ intervals = {}) =>
            UNCHANGED <<time, timerRef, intervals, nextTimerId>>]_vars

\* Started once, ticked twice, then Stop was clicked twice: the second Stop
\* found no interval active.
C25_Witness ==
    /\ stopClicks = 2
    /\ nextTimerId = 2
    /\ timerRef = null
    /\ intervals = {}
    /\ time = 2

(***************************************************************************)
(* Properties: the hooks examples                                          *)
(***************************************************************************)

\* C11: in PreviousStateExample every render displays as Previous Count the
\* value count had in the preceding render: after k >= 1 clicks it shows
\* Current Count = k and Previous Count = k - 1, and 0 / 0 at first.
C11_PreviousCount ==
    /\ [](psView.current = psClicks)
    /\ [](psClicks = 0 => psView.previous = 0)
    /\ [](psClicks >= 1 => psView.previous = psClicks - 1)
    /\ [][psClicks' # psClicks => psView'.previous = psView.current]_vars

C11_Witness ==
    /\ psClicks = 3
    /\ psView = [current |-> 3, previous |-> 2]

\* C12: in WithUseMemo the expensive computation runs once, on the first
\* render, and no "Increase Count" click runs it again, while computedValue
\* is number * 2 in every render.
C12_ComputedOnce ==
    /\ [](computeRuns = 1)
    /\ [](memoView.computedValue = memoNumber * 2)
    /\ [](memoView.computedValue = 20)
    /\ [][memoCount' # memoCount =>
            /\ computeRuns' = computeRuns
            /\ memoView'.count = memoView.count + 1]_vars

C12_Witness ==
    /\ mounted = "WithUseMemo"
    /\ memoCount = 3
    /\ computeRuns = 1
    /\ memoView = [computedValue |-> 20, count |-> 3]

\* C13: with useCallback and an empty dependency list handleClick is the
\* same function in every render and the memoized Child renders exactly
\* once; without useCallback handleClick is new in every render and Child
\* renders with every Parent render.
C13_ChildRendersOnce ==
    /\ parentRenders = parentCount + 1
    /\ mounted = "Parent (useCallback)" =>
          /\ handleClick = 1
          /\ childRenders = 1
    /\ mounted = "Parent" =>
          /\ handleClick = parentRenders
          /\ childRenders = parentRenders

C13_Witness ==
    /\ mounted = "Parent (useCallback)"
    /\ parentCount = 3
    /\ parentRenders = 4
    /\ childRenders = 1

\* C14: in the Search example the fetch is debounced: a sequence of change
\* events produces fewer fetchResults calls than change events.
C14_FewerFetchesThanChanges ==
    changes >= 2 => Len(fetched) < changes

\* C26: WithUseMemo and WithoutUseMemo are observationally equivalent:
\* after the same number of "Increase Count" clicks both display the same
\* computedValue and the same count; they differ only in how many times the
\* expensive computation has run (once, against once per render).
C26_SameDisplay ==
    /\ memoClicks = plainClicks =>
          /\ memoView.computedValue = plainView.computedValue
          /\ memoView.count = plainView.count
    /\ memoView.count = memoClicks
    /\ plainView.count = plainClicks
    /\ computeRuns = 1
    /\ plainRuns = plainClicks + 1

C26_Witness ==
    /\ memoClicks = 2
    /\ plainClicks = 2
    /\ memoView = [computedValue |-> 20, count |-> 2]
    /\ plainView = [computedValue |-> 20, count |-> 2]
    /\ computeRuns = 1
    /\ plainRuns = 3

(***************************************************************************)
(* Properties: the CSS demos                                               *)
(***************************************************************************)

\* C15: on the CSS demo page a toggle click inside one demo changes only
\* that demo's boolean and leaves the state and the rendering of the other
\* demos unchanged.
C15_DemosShareNoState ==
    [][\A d \in Demos : cssClicks'[d] # cssClicks[d] =>
          /\ cssState'[d] # cssState[d]
          /\ \A e \in Demos \ {d} :
                /\ cssState'[e] = cssState[e]
                /\ cssView'[e] = cssView[e]
                /\ cssClicks'[e] = cssClicks[e]]_vars

C15_Witness ==
    /\ mounted = "css-demo-page"
    /\ cssClicks["Using_Inline_Style"] = 1
    /\ cssClicks["Using_Emotion"] = 0
    /\ cssView["Using_Inline_Style"].color = "red"
    /\ cssView["Using_Emotion"].color = "blue"
    /\ cssView["Using_CSS_Classes"].className = "light-mode"

\* C16: each CSS-toggling demo holds one boolean, flips it on every click
\* and renders a style that depends on that boolean alone (red / blue,
\* "dark-mode" / "light-mode", blue / gray, bg-green-500 / bg-gray-200), so
\* two clicks restore the initial rendering.
C16_ToggleAndRestore ==
    /\ [](cssView["Using_Inline_Style"].color =
             IF cssState["Using_Inline_Style"] THEN "red" ELSE "blue")
    /\ [](cssView["Using_Emotion"].color =
             IF cssState["Using_Emotion"] THEN "red" ELSE "blue")
    /\ [](cssView["Using_CSS_Classes"].className =
             IF cssState["Using_CSS_Classes"] THEN "dark-mode" ELSE "light-mode")
    /\ [](cssView["Using_Styled_Components"].backgroundColor =
             IF cssState["Using_Styled_Components"] THEN "blue" ELSE "gray")
    /\ [](cssView["Using_Tailwind_CSS"].className =
             IF cssState["Using_Tailwind_CSS"]
             THEN "bg-green-500 text-blue-500" ELSE "bg-gray-200 text-blue-500")
    /\ [](\A d \in Demos \ {"Using_CSS_Module"} :
             cssState[d] <=> cssClicks[d] % 2 = 1)
    /\ [](cssClicks["Using_Inline_Style"] % 2 = 0 =>
             cssView["Using_Inline_Style"].color = "blue")
    /\ [](cssClicks["Using_Emotion"] % 2 = 0 =>
             cssView["Using_Emotion"].color = "blue")
    /\ [](cssClicks["Using_CSS_Classes"] % 2 = 0 =>
             cssView["Using_CSS_Classes"].className = "light-mode")
    /\ [](cssClicks["Using_Styled_Components"] % 2 = 0 =>
             cssView["Using_Styled_Components"].backgroundColor = "gray")
    /\ [](cssClicks["Using_Tailwind_CSS"] % 2 = 0 =>
             cssView["Using_Tailwind_CSS"].className = "bg-gray-200 text-blue-500")
    /\ [][\A d \in Demos : cssClicks'[d] # cssClicks[d] =>
             cssState'[d] = ~cssState[d]]_vars

C16_Witness ==
    /\ cssClicks["Using_Styled_Components"] = 2
    /\ cssView["Using_Styled_Components"].backgroundColor = "gray"
    /\ cssClicks["Using_CSS_Classes"] = 1
    /\ cssView["Using_CSS_Classes"].className = "dark-mode"

\* C17: in the useRef class-toggling example each click toggles "active" on
\* the div: present after an odd number of clicks, absent after an even
\* number; "box" is present in every state; no click renders again.
C17_ActiveIffOddClicks ==
    /\ "active" \in classList <=> boxClicks % 2 = 1
    /\ "box" \in classList
    /\ classList \subseteq {"box", "active"}
    /\ boxRenders = 1

C17_Witness ==
    /\ boxClicks = 3
    /\ classList = {"box", "active"}
    /\ boxRenders = 1

\* C18: in RenderCounter each Increment click causes exactly one more
\* render, and the number shown as "Component Rendered" equals the number
\* of renders performed so far, that render included.
C18_ShownEqualsRenders ==
    /\ [](rcView.rendered = rcRenders)
    /\ [](rcRenders = rcCount + 1)
    /\ [](rcView.count = rcCount)
    /\ [][rcCount' # rcCount =>
            /\ rcCount' = rcCount + 1
            /\ rcRenders' = rcRenders + 1]_vars

C18_Witness ==
    /\ rcCount = 2
    /\ rcRenders = 3
    /\ rcView = [count |-> 2, rendered |-> 3]

C20_ContextsIndependent ==
    [][/\ themeClicks' # themeClicks => isAuthenticated' = isAuthenticated
       /\ authClicks' # authClicks => theme' = theme]_vars

C20_Witness ==
    /\ themeClicks = 1
    /\ authClicks = 1
    /\ theme = "dark"
    /\ isAuthenticated = TRUE

(***************************************************************************)
(* Properties: ThemeProvider and ControlledForm                            *)
(***************************************************************************)

\* C27: the class-based and the hook-based ThemeProvider hold the same
\* theme after every sequence of toggleTheme calls, including calls issued
\* before the provider has rendered again.
C27_SameTheme ==
    (classPending = <<>> /\ hookPending = 0) => classTheme.theme = hookTheme

\* C28: in ControlledForm a change event on one input updates only that
\* field of formData: formData always has exactly the keys name and email,
\* each holding the value of the latest change event for that field, and
\* the value submitted is the value displayed.
C28_OnlyThatField ==
    /\ [](DOMAIN formData = {"name", "email"})
    /\ [](\A f \in Fields : Get(formData, f) = lastChange[f])
    /\ [](\A f \in Fields : formView[f] = Get(formData, f))
    /\ [][\A f \in Fields : lastChange'[f] = lastChange[f] =>
              /\ Get(formData', f) = Get(formData, f)
              /\ formView'[f] = formView[f]]_vars
    /\ [][submitted' # submitted =>
            /\ Len(submitted') = Len(submitted) + 1
            /\ \A f \in Fields :
                  Get(submitted'[Len(submitted')], f) = formView[f]
            /\ UNCHANGED <<formData, formView>>]_vars

\* Both inputs were changed, the name twice, and the form was submitted.
C28_Witness ==
    /\ formChanges = 3
    /\ formData = [name |-> "ab", email |-> "a"]
    /\ formView = [name |-> "ab", email |-> "a"]
    /\ submitted = <<[name |-> "ab", email |-> "a"]>>

====
